---- MODULE Spec2Model ----
(***************************************************************************)
(* Streaming-upload core of the Vena ETL tool: the stream state machine    *)
(* (utils/streamState.js), the error classifier                            *)
(* (utils/errorClassification.js), the retry wrapper                       *)
(* (utils/apiResponse.js, retryOperation) and the upload orchestrator      *)
(* (utils/streamingUpload.js, streamingUpload).                            *)
(*                                                                         *)
(* Three specifications share this module:                                 *)
(*   SpecSM     - one StreamState object driven by arbitrary method calls  *)
(*   SpecRetry  - one call of retryOperation (SpecRetryFair adds fairness) *)
(*   Spec       - one streamingUpload attempt and its racing events        *)
(***************************************************************************)
EXTENDS Integers, Sequences, FiniteSets, TLC

VARIABLES
    \* ---- StreamState object under test (SpecSM)
    machine,        \* the StreamState object's fields
    smCall,         \* the most recent method call and what it returned
    smCalls,        \* number of method calls made so far
    \* ---- retryOperation (SpecRetry)
    rPc,            \* "start" | "inOp" | "wait" | "returned" | "thrown"
    rRetries,       \* argument retries
    rBackoff0,      \* argument backoff
    rPredicate,     \* argument shouldRetry: "default" | "caller" | "always" | "never"
    rHasSignal,     \* whether a signal argument was passed
    rAbortedAtCall, \* signal.aborted at the moment retryOperation was called
    rAborted,       \* signal.aborted
    rAttempt,       \* local currentAttempt
    rBackoff,       \* local currentBackoff
    rLog,           \* what the call has done so far, in order
    rFetchSignal,   \* fetchWithRetry's own signal argument: "unfired", or where
                    \*   the call was when it fired ("firedInOp" | "firedInWait")
    \* ---- one streamingUpload attempt (Spec)
    uPc,            \* "notStarted" | "fetching" | "readingJson" | "readingText"
                    \*   | "returned" | "threw" | "threwInSetup"
    uStatus,        \* response.status once the response has arrived
    uResult,        \* the error streamingUpload rejected with
    sig,            \* the abort signal, its listener and the deadline timer
    ssm,            \* streamStateManager
    fileStream,     \* the read stream over the file
    bytesUploaded,  \* the orchestrator's byte counter, in chunks
    timers,         \* progress tracker, memory monitor, pending resume timers
    activeUploads,  \* terminationHandler.js: ids in the registry
    isShuttingDown, \* terminationHandler.js
    memCriticals,   \* memory-critical notifications delivered so far
    bytesAcked,     \* chunks the transport has sent and the server has taken
    fx,             \* how often each side effect has happened
    \* ---- several attempts and the termination registry (SpecMulti)
    mAttempts,      \* attempt -> its uploadId, controller, signal and state
    mRegistry,      \* terminationHandler.js: activeUploads, key -> owner
    mShutting,      \* terminationHandler.js: isShuttingDown
    mProc,          \* the process: configuration, exit timers, whether it runs
    \* ---- one ProgressTracker (SpecTracker)
    tracker,        \* the fields of the ProgressTracker
    tLog,           \* what each firing of the interval did, in order
    \* ---- classifyError calls (SpecClassify)
    cErr,           \* the error object the calls are made on
    cLog            \* each call so far: what it was given and what it returned

smVars == <<machine, smCall, smCalls>>
rVars  == <<rPc, rRetries, rBackoff0, rPredicate, rHasSignal, rAbortedAtCall, rAborted,
            rAttempt, rBackoff, rLog, rFetchSignal>>
uVars  == <<uPc, uStatus, uResult, sig, ssm, fileStream, bytesUploaded, timers,
            activeUploads, isShuttingDown, memCriticals, bytesAcked, fx>>
mVars  == <<mAttempts, mRegistry, mShutting, mProc>>
tVars  == <<tracker, tLog>>
cVars  == <<cErr, cLog>>
vars   == <<smVars, rVars, uVars, mVars, tVars, cVars>>

(***************************************************************************)
(* Bounds of the model                                                     *)
(***************************************************************************)
MaxCalls   == 4     \* method calls made on the StreamState under test
MaxRetries == 2     \* largest value of the retries argument
MaxChunks  == 3     \* largest number of chunks in the uploaded file
MaxCritical == 1    \* memory-critical notifications during one attempt
MaxAbortCalls == 2  \* invocations of one attempt's cancel handle
MaxTicks   == 2     \* firings of the progress interval during one attempt
NumAttempts == 2    \* concurrent attempts sharing the termination registry
MaxTerminations == 2 \* termination requests the process receives
MaxTrackerTicks == 5 \* firings of the interval of the tracker under test
MaxFileBytes == 3   \* largest file size given to the tracker under test
MaxTokens == 2      \* substrings of interest in one error message
MaxClassifyCalls == 3 \* classifyError calls in one run

(***************************************************************************)
(* utils/streamState.js                                                    *)
(***************************************************************************)
STATES == {"initial", "active", "paused", "aborted", "completed", "error"}

VALID_TRANSITIONS_PausedCompletes(s) ==
    CASE s = "initial"   -> {"active", "aborted", "error"}
      [] s = "active"    -> {"paused", "completed", "aborted", "error"}
      [] s = "paused"    -> {"active", "completed", "aborted", "error"}
      [] OTHER           -> {}

VALID_TRANSITIONS(s) ==
    CASE s = "initial"   -> {"active", "aborted", "error"}
      [] s = "active"    -> {"paused", "completed", "aborted", "error"}
      [] s = "paused"    -> {"active", "aborted", "error"}
      [] s = "aborted"   -> {}
      [] s = "completed" -> {}
      [] s = "error"     -> {}
      [] OTHER           -> {}

\* null / undefined
Null == "null"

\* new StreamState(streamId, onStateChange): the constructor logs the initial
\* state through logTransition(null, state), which does not call the observer.
\* observed is the sequence of calls the onStateChange callback has received.
NewStreamState ==
    [ state       |-> "initial",
      error       |-> Null,
      isTerminal  |-> FALSE,
      transitions |-> << [from |-> Null, to |-> "initial"] >>,
      observed    |-> << >> ]

\* logTransition(oldState, newState)
LogTransition(m, oldState, newState) ==
    [m EXCEPT !.transitions = Append(@, [from |-> oldState, to |-> newState])]

\* the body of transition() once the three guards have passed
AcceptTransition(m, newState, error) ==
    LET m1 == [m EXCEPT
                 !.state = newState,
                 !.error = IF error # Null /\ newState \in {"error", "aborted"}
                           THEN error ELSE @,
                 !.isTerminal = newState \in {"completed", "aborted", "error"}]
        m2 == LogTransition(m1, m.state, newState)
    IN  [m2 EXCEPT !.observed =
            Append(@, [old |-> m.state, new |-> newState, error |-> error])]

\* A state machine without the terminal latch, in which a later failure
\* overrides an abort.
Transition_NoLatch(m, newState, error) ==
    IF newState \in VALID_TRANSITIONS(m.state)
          \/ (m.state = "aborted" /\ newState = "error")
    THEN [m |-> AcceptTransition(m, newState, error), ret |-> TRUE]
    ELSE [m |-> m, ret |-> FALSE]

\* A state machine that tells the observer about rejected requests too.
Transition_NotifyAlways(m, newState, error) ==
    IF m.isTerminal \/ newState \notin STATES
          \/ newState \notin VALID_TRANSITIONS(m.state)
    THEN [m |-> [m EXCEPT !.observed =
                    Append(@, [old |-> m.state, new |-> newState, error |-> error])],
          ret |-> FALSE]
    ELSE [m |-> AcceptTransition(m, newState, error), ret |-> TRUE]

\* transition(newState, error): the new object and the returned boolean
Transition(m, newState, error) ==
    IF m.isTerminal THEN [m |-> m, ret |-> FALSE]
    ELSE IF newState \notin STATES THEN [m |-> m, ret |-> FALSE]
    ELSE IF newState \notin VALID_TRANSITIONS(m.state) THEN [m |-> m, ret |-> FALSE]
    ELSE [m |-> AcceptTransition(m, newState, error), ret |-> TRUE]

Activate(m)    == Transition(m, "active", Null)
Pause(m)       == Transition(m, "paused", Null)
Complete(m)    == Transition(m, "completed", Null)
Abort(m, err)  == Transition(m, "aborted", err)
Fail(m, err)   == Transition(m, "error", err)
Is(m, s)            == m.state = s
IsInTerminalState(m) == m.isTerminal

\* ---- SpecSM: arbitrary callers of one StreamState
SMErrors     == {Null, "E1", "E2"}
SMRequests   == STATES \cup {"bogus"}

NoCall == [method |-> "none", newState |-> Null, error |-> Null,
           ret |-> FALSE, before |-> NewStreamState]

SMInit ==
    /\ machine = NewStreamState
    /\ smCall = NoCall
    /\ smCalls = 0

SMDo(method, newState, error, r) ==
    /\ smCalls < MaxCalls
    /\ machine' = r.m
    /\ smCall' = [method |-> method, newState |-> newState, error |-> error,
                  ret |-> r.ret, before |-> machine]
    /\ smCalls' = smCalls + 1

SM_transition ==
    \E s \in SMRequests, e \in SMErrors :
        SMDo("transition", s, e, Transition(machine, s, e))
SM_activate == SMDo("activate", "active", Null, Activate(machine))
SM_pause    == SMDo("pause", "paused", Null, Pause(machine))
SM_complete == SMDo("complete", "completed", Null, Complete(machine))
SM_abort    == \E e \in SMErrors : SMDo("abort", "aborted", e, Abort(machine, e))
SM_fail     == \E e \in SMErrors : SMDo("fail", "error", e, Fail(machine, e))

SMNext ==
    \/ SM_transition /\ UNCHANGED <<rVars, uVars, mVars, tVars, cVars>>
    \/ SM_activate /\ UNCHANGED <<rVars, uVars, mVars, tVars, cVars>>
    \/ SM_pause /\ UNCHANGED <<rVars, uVars, mVars, tVars, cVars>>
    \/ SM_complete /\ UNCHANGED <<rVars, uVars, mVars, tVars, cVars>>
    \/ SM_abort /\ UNCHANGED <<rVars, uVars, mVars, tVars, cVars>>
    \/ SM_fail /\ UNCHANGED <<rVars, uVars, mVars, tVars, cVars>>

(***************************************************************************)
(* utils/errorClassification.js                                            *)
(*                                                                         *)
(* An error object is a record.  Its message is kept as the set of the     *)
(* substrings the classifier looks for (tokens) together with the number   *)
(* the pattern /Status: (\d+)/ finds in it (status, 0 when there is none). *)
(* category = "none" stands for an error that carries no classification.   *)
(***************************************************************************)
MessageTokens == {"aborted", "connection reset", "connection refused", "timeout",
                  "HTTP error! Status:", "validation failed", "invalid"}

RawError(name, code, tokens, status) ==
    [ name |-> name, code |-> code, tokens |-> tokens, status |-> status,
      errorType |-> "none", category |-> "none", recoverable |-> FALSE ]

\* the code is kept only in context.originalCode
CreateClassifiedError_ClearsCode(e, errorType, category, recoverable) ==
    [e EXCEPT !.errorType = errorType, !.category = category,
              !.recoverable = recoverable, !.code = ""]

\* createClassifiedError(originalError, errorType, category, recoverable, context)
CreateClassifiedError(e, errorType, category, recoverable) ==
    [e EXCEPT !.errorType = errorType, !.category = category,
              !.recoverable = recoverable]

\* the branch without its case for 404
ClassifyStatus_No404(e) ==
    LET status == e.status IN
    IF status >= 500      THEN CreateClassifiedError(e, "server_error", "server", TRUE)
    ELSE IF status = 429  THEN CreateClassifiedError(e, "rate_limited", "server", TRUE)
    ELSE IF status = 401  THEN CreateClassifiedError(e, "unauthorized", "auth", FALSE)
    ELSE IF status = 403  THEN CreateClassifiedError(e, "unauthorized", "auth", FALSE)
    ELSE IF status = 413  THEN CreateClassifiedError(e, "file_too_large", "validation", FALSE)
    ELSE IF status >= 400 THEN CreateClassifiedError(e, "invalid_input", "validation", FALSE)
    ELSE CreateClassifiedError(e, "unknown", "unknown", FALSE)

\* the HTTP-status branch of classifyError
ClassifyStatus(e) ==
    LET status == e.status IN
    IF status >= 500      THEN CreateClassifiedError(e, "server_error", "server", TRUE)
    ELSE IF status = 429  THEN CreateClassifiedError(e, "rate_limited", "server", TRUE)
    ELSE IF status = 401  THEN CreateClassifiedError(e, "unauthorized", "auth", FALSE)
    ELSE IF status = 403  THEN CreateClassifiedError(e, "unauthorized", "auth", FALSE)
    ELSE IF status = 404  THEN CreateClassifiedError(e, "server_error", "server", FALSE)
    ELSE IF status = 413  THEN CreateClassifiedError(e, "file_too_large", "validation", FALSE)
    ELSE IF status >= 400 THEN CreateClassifiedError(e, "invalid_input", "validation", FALSE)
    ELSE CreateClassifiedError(e, "unknown", "unknown", FALSE)

\* classifyError(error, additionalContext)
ClassifyError(e) ==
    LET has(t) == t \in e.tokens
        code   == e.code
    IN
    IF e.name = "AbortError" \/ has("aborted")
         THEN CreateClassifiedError(e, "user_abort", "abort", FALSE)
    ELSE IF code = "ENOENT"
         THEN CreateClassifiedError(e, "file_not_found", "filesystem", FALSE)
    ELSE IF code = "EACCES"
         THEN CreateClassifiedError(e, "permission_denied", "filesystem", FALSE)
    ELSE IF code = "EPERM"
         THEN CreateClassifiedError(e, "permission_denied", "filesystem", FALSE)
    ELSE IF code = "EBUSY"
         THEN CreateClassifiedError(e, "file_in_use", "filesystem", TRUE)
    ELSE IF code = "EISDIR"
         THEN CreateClassifiedError(e, "is_directory", "filesystem", FALSE)
    ELSE IF code = "ENOTDIR"
         THEN CreateClassifiedError(e, "directory_not_found", "filesystem", FALSE)
    ELSE IF code = "ECONNRESET" \/ has("connection reset")
         THEN CreateClassifiedError(e, "connection_reset", "network", TRUE)
    ELSE IF code = "ECONNREFUSED" \/ has("connection refused")
         THEN CreateClassifiedError(e, "connection_refused", "network", TRUE)
    ELSE IF code = "ETIMEDOUT" \/ has("timeout")
         THEN CreateClassifiedError(e, "timeout", "timeout", TRUE)
    ELSE IF code = "ENOTFOUND"
         THEN CreateClassifiedError(e, "dns_lookup_failed", "network", TRUE)
    ELSE IF code = "EPIPE"
         THEN CreateClassifiedError(e, "broken_pipe", "stream", TRUE)
    ELSE IF has("HTTP error! Status:")
         THEN ClassifyStatus(e)
    ELSE IF has("validation failed") \/ has("invalid")
         THEN CreateClassifiedError(e, "invalid_input", "validation", FALSE)
    ELSE CreateClassifiedError(e, "unknown", "unknown", FALSE)

\* isRecoverableError(error)
IsRecoverableError(e) ==
    LET c == IF e.category = "none" THEN ClassifyError(e) ELSE e
    IN  c.recoverable = TRUE

(***************************************************************************)
(* utils/apiResponse.js: retryOperation                                    *)
(***************************************************************************)
NoError == RawError("none", "", {}, 0)

\* new DOMException('The operation was aborted', 'AbortError')
OperationAborted == RawError("AbortError", "", {"aborted"}, 0)
\* new DOMException('Retry aborted', 'AbortError')
RetryAborted     == RawError("AbortError", "", {"aborted"}, 0)

HttpError(status, detailTokens) ==
    RawError("Error", "", {"HTTP error! Status:"} \cup detailTokens, status)

\* What an operation may reject with: raw errors of fetch and of the callers'
\* non-2xx branches (whose message ends in the response body text), and errors
\* a callee has classified already.
OpErrors ==
    { RawError("AbortError", "", {"aborted"}, 0),
      RawError("Error", "ECONNRESET", {}, 0),
      RawError("Error", "", {}, 0),
      HttpError(401, {}),
      HttpError(401, {"timeout"}),
      HttpError(500, {}),
      HttpError(429, {}),
      RawError("FetchError", "ENOTFOUND", {}, 0),
      RawError("FetchError", "ECONNRESET", {"ECONNRESET"}, 0),
      CreateClassifiedError(RawError("Error", "", {}, 0), "user_abort", "abort", TRUE),
      CreateClassifiedError(RawError("Error", "ECONNRESET", {}, 0),
                            "connection_reset", "network", TRUE) }

Event(ev, err, ms) == [ev |-> ev, err |-> err, ms |-> ms]

\* the error codes the callers look for in the message
CallerTokens == {"ECONNRESET", "ETIMEDOUT", "ECONNREFUSED"}

\* the shouldRetry argument that fetchWithRetry, uploadFileWithRetry and the
\* job submission pass; 'HTTP error! Status: 5' is a status whose first digit
\* is 5 (the statuses of the model have three digits)
CallerShouldRetry(error) ==
    IF error.name = "AbortError" THEN FALSE
    ELSE LET isNetworkError == error.tokens \cap CallerTokens # {}
             isServerError  == /\ "HTTP error! Status:" \in error.tokens
                               /\ error.status \div 100 = 5
         IN  isNetworkError \/ isServerError

\* the shouldRetry argument: absent (isRecoverableError is used), the predicate
\* of the callers in this repository, or a predicate that accepts everything,
\* or one that accepts nothing
RetryPredicate(p, classifiedError) ==
    CASE p = "default" -> IsRecoverableError(classifiedError)
      [] p = "caller"  -> CallerShouldRetry(classifiedError)
      [] p = "always"  -> TRUE
      [] p = "never"   -> FALSE

\* "Always fail fast on abort"
IsAbort_Never(classifiedError) == FALSE

IsAbort(classifiedError) ==
    classifiedError.name = "AbortError" \/ classifiedError.category = "abort"

AttemptsRemaining_OffByOne(retries, currentAttempt) == retries - currentAttempt + 2

AttemptsRemaining(retries, currentAttempt) == retries - currentAttempt + 1

\* "Check if we should retry and have retries left"
GivesUp(retries, currentAttempt, p, classifiedError) ==
    \/ AttemptsRemaining(retries, currentAttempt) <= 0
    \/ ~RetryPredicate(p, classifiedError)

AbortHandler_KeepsWaiting(log) ==
    [pc |-> "wait", log |-> Append(log, Event("waitAborted", NoError, rBackoff))]

\* abortHandler of the backoff wait: the timeout is cleared and the wait
\* rejects with the classified 'Retry aborted' error, which the catch around
\* the wait throws again
AbortHandler(log) ==
    [pc |-> "thrown",
     log |-> Append(Append(log, Event("waitAborted", NoError, rBackoff)),
                    Event("throw", ClassifyError(RetryAborted), 0))]

NextBackoff_Constant(currentBackoff) == currentBackoff

\* currentBackoff *= 2
NextBackoff(currentBackoff) == currentBackoff * 2

\* The catch block, entered with the error `error`; log is the log so far.
\* Gives the next pc and log.
Catch(error, log) ==
    LET classifiedError == IF error.category # "none" THEN error
                           ELSE ClassifyError(error)
    IN
    IF IsAbort(classifiedError)
      THEN [pc |-> "thrown", log |-> Append(log, Event("throw", classifiedError, 0))]
    ELSE IF GivesUp(rRetries, rAttempt, rPredicate, classifiedError)
      THEN [pc |-> "thrown", log |-> Append(log, Event("throw", classifiedError, 0))]
    ELSE IF rHasSignal /\ rAborted
      \* the backoff promise: abortHandler() is called at once
      THEN AbortHandler(log)
    ELSE [pc |-> "wait", log |-> Append(log, Event("wait", NoError, rBackoff))]

\* fetchWithRetry calls retryOperation(operation, retriesCount, backoffTime,
\* shouldRetry): its own signal argument is not among the four
IsFetchWithRetry == rPredicate = "caller" /\ ~rHasSignal

\* operation() is called. The operation of fetchWithRetry looks at its signal
\* first and throws 'The operation was aborted' when it has fired.
InvokeOperation(log) ==
    LET called == Append(log, Event("call", NoError, 0)) IN
    IF IsFetchWithRetry /\ rFetchSignal # "unfired"
      THEN Catch(OperationAborted,
                 Append(called, Event("fail", ClassifyError(OperationAborted), 0)))
      ELSE [pc |-> "inOp", log |-> called]

LoopHead_NoAbortCheck(log) == InvokeOperation(log)

\* Top of the while loop: the abort check, then the call of operation()
LoopHead(log) ==
    IF rHasSignal /\ rAborted
      THEN Catch(OperationAborted, log)
      ELSE InvokeOperation(log)

InitialBackoffs == {300, 1000}

RetryInit ==
    /\ rPc = "start"
    /\ rRetries \in 0..MaxRetries
    /\ rBackoff0 \in InitialBackoffs
    /\ rPredicate \in {"default", "caller", "always", "never"}
    /\ rHasSignal \in BOOLEAN
    /\ rAborted \in BOOLEAN
    /\ rAbortedAtCall = rAborted
    /\ (rAborted => rHasSignal)
    /\ rAttempt = 1
    /\ rBackoff = rBackoff0
    /\ rLog = << >>
    /\ rFetchSignal = "unfired"

\* retryOperation is called: first pass through the loop head
R_Start ==
    /\ rPc = "start"
    /\ LET n == LoopHead(rLog) IN rPc' = n.pc /\ rLog' = n.log
    /\ UNCHANGED <<rRetries, rBackoff0, rPredicate, rHasSignal, rAbortedAtCall, rAborted,
                   rAttempt, rBackoff, rFetchSignal>>

\* operation() resolves
R_OpResolves ==
    /\ rPc = "inOp"
    /\ rPc' = "returned"
    /\ rLog' = Append(rLog, Event("return", NoError, 0))
    /\ UNCHANGED <<rRetries, rBackoff0, rPredicate, rHasSignal, rAbortedAtCall, rAborted,
                   rAttempt, rBackoff, rFetchSignal>>

\* operation() rejects with e: the catch block runs up to its await
R_OpRejects ==
    \E e \in OpErrors :
        /\ rPc = "inOp"
        /\ LET classified == IF e.category # "none" THEN e ELSE ClassifyError(e)
               n == Catch(e, Append(rLog, Event("fail", classified, 0)))
           IN  rPc' = n.pc /\ rLog' = n.log
        /\ UNCHANGED <<rRetries, rBackoff0, rPredicate, rHasSignal, rAbortedAtCall, rAborted,
                       rAttempt, rBackoff, rFetchSignal>>

\* the backoff timer fires: the counters are updated and the loop goes round
R_WaitTimeout ==
    /\ rPc = "wait"
    /\ rAttempt' = rAttempt + 1
    /\ rBackoff' = NextBackoff(rBackoff)
    /\ LET n == LoopHead(rLog) IN rPc' = n.pc /\ rLog' = n.log
    /\ UNCHANGED <<rRetries, rBackoff0, rPredicate, rHasSignal, rAbortedAtCall, rAborted,
                   rFetchSignal>>

\* the caller's signal is aborted while the call is in progress; during a
\* backoff wait abortHandler rejects the wait
R_SignalAbort ==
    /\ rHasSignal /\ ~rAborted
    /\ rPc \in {"inOp", "wait"}
    /\ rAborted' = TRUE
    /\ IF rPc = "wait"
         THEN LET n == AbortHandler(rLog) IN rPc' = n.pc /\ rLog' = n.log
         ELSE UNCHANGED <<rPc, rLog>>
    /\ UNCHANGED <<rRetries, rBackoff0, rPredicate, rHasSignal, rAbortedAtCall, rAttempt, rBackoff,
                   rFetchSignal>>

\* the signal given to fetchWithRetry is aborted while its retryOperation call
\* is in progress: retryOperation has no listener on it, so nothing runs now
R_FetchSignalAbort ==
    /\ IsFetchWithRetry
    /\ rFetchSignal = "unfired"
    /\ rPc \in {"inOp", "wait"}
    /\ rFetchSignal' = IF rPc = "wait" THEN "firedInWait" ELSE "firedInOp"
    /\ UNCHANGED <<rPc, rRetries, rBackoff0, rPredicate, rHasSignal, rAbortedAtCall, rAborted,
                   rAttempt, rBackoff, rLog>>

RetryNext ==
    \/ R_Start /\ UNCHANGED <<smVars, uVars, mVars, tVars, cVars>>
    \/ R_OpResolves /\ UNCHANGED <<smVars, uVars, mVars, tVars, cVars>>
    \/ R_OpRejects /\ UNCHANGED <<smVars, uVars, mVars, tVars, cVars>>
    \/ R_WaitTimeout /\ UNCHANGED <<smVars, uVars, mVars, tVars, cVars>>
    \/ R_SignalAbort /\ UNCHANGED <<smVars, uVars, mVars, tVars, cVars>>
    \/ R_FetchSignalAbort /\ UNCHANGED <<smVars, uVars, mVars, tVars, cVars>>

(***************************************************************************)
(* utils/streamingUpload.js, with utils/uploadController.js and            *)
(* utils/terminationHandler.js                                             *)
(*                                                                         *)
(* The handlers are functions from the attempt's state to its next state;  *)
(* World gathers the variables into the record w they work on.             *)
(***************************************************************************)
UploadId == "u1"

World ==
    [ pc |-> uPc, status |-> uStatus, result |-> uResult, sig |-> sig, ssm |-> ssm,
      fileStream |-> fileStream, bytesUploaded |-> bytesUploaded, timers |-> timers,
      activeUploads |-> activeUploads, fx |-> fx ]

Commit(w) ==
    /\ uPc' = w.pc
    /\ uStatus' = w.status
    /\ uResult' = w.result
    /\ sig' = w.sig
    /\ ssm' = w.ssm
    /\ fileStream' = w.fileStream
    /\ bytesUploaded' = w.bytesUploaded
    /\ timers' = w.timers
    /\ activeUploads' = w.activeUploads
    /\ fx' = w.fx

NoEffects ==
    [ destroy |-> 0, trackerStop |-> 0, monitorStop |-> 0, controllerCleanup |-> 0,
      unregister |-> 0, onSuccess |-> 0, onError |-> 0, onAbort |-> 0,
      onProgress |-> 0 ]

\* the error node-fetch rejects with when its signal is aborted
FetchAborted == RawError("AbortError", "", {"aborted"}, 0)

\* fileStream.destroy()
DestroyStream(w) ==
    [w EXCEPT !.fileStream.destroyed = TRUE, !.fx.destroy = @ + 1]

\* tracker.stop()
StopTracker(w) ==
    [w EXCEPT !.timers.tracker = FALSE, !.fx.trackerStop = @ + 1]

\* memoryMonitor.stop()
StopMonitor(w) ==
    [w EXCEPT !.timers.monitor = FALSE, !.fx.monitorStop = @ + 1]

\* uploadController.js, cleanup(): the deadline timer is cleared and the
\* listeners added through the tracked signal are removed
ControllerCleanup(w) ==
    [w EXCEPT !.sig.deadline = FALSE, !.sig.listener = FALSE,
              !.fx.controllerCleanup = @ + 1]

\* cleanupResources()
CleanupResources(w) ==
    IF ~IsInTerminalState(w.ssm)
      THEN LET w1 == DestroyStream(w)
               w2 == IF Is(w1.ssm, "active") \/ Is(w1.ssm, "paused")
                       THEN [w1 EXCEPT !.ssm = Complete(w1.ssm).m] ELSE w1
               w3 == StopMonitor(StopTracker(w2))
           IN  IF w3.sig.own THEN ControllerCleanup(w3) ELSE w3
      ELSE w

\* fileStream.on('error', ...)
StreamErrorHandler(w, err) ==
    IF ~Is(w.ssm, "error") /\ ~Is(w.ssm, "aborted")
      THEN LET classifiedError == ClassifyError(err)
               w1 == [w EXCEPT !.ssm = Fail(w.ssm, classifiedError.errorType).m,
                               !.fx.onError = @ + 1]
           IN  CleanupResources(w1)
      ELSE w

\* abortSignal.addEventListener('abort', ...)
AbortListener(w) ==
    IF ~IsInTerminalState(w.ssm)
      THEN LET w1 == [w EXCEPT !.ssm = Abort(w.ssm, w.sig.reason).m,
                               !.fx.onAbort = @ + 1]
           IN  CleanupResources(w1)
      ELSE w

\* config.api.memoryThreshold, in chunks
MemoryThreshold == 1

\* the backpressure test of the 'data' handler; rateLow is the outcome of the
\* comparison of the current read rate with its threshold (70% of the average
\* of the last five rates, or minUploadRate), which depends on the clock
NeedsBackpressure(w, rateLow) ==
    w.bytesUploaded > MemoryThreshold /\ rateLow

\* fileStream.on('data', ...)
DataHandler(w, rateLow) ==
    IF IsInTerminalState(w.ssm) THEN w
    ELSE LET w1 == [w EXCEPT !.bytesUploaded = @ + 1] IN
         IF w1.sig.aborted
           THEN DestroyStream([w1 EXCEPT !.ssm = Abort(w1.ssm, w1.sig.reason).m])
         ELSE IF NeedsBackpressure(w1, rateLow)
           THEN [w1 EXCEPT !.ssm = Pause(w1.ssm).m,
                           !.fileStream.paused = TRUE,
                           !.timers.resume = @ + 1]
         ELSE w1

\* fileStream.on('end', ...)
EndHandler(w) ==
    IF ~IsInTerminalState(w.ssm)
      THEN [w EXCEPT !.ssm = Complete(w.ssm).m]
      ELSE w

ResumeCallback_Never(w) == w

ResumeCallback_Unguarded(w) ==
    [w EXCEPT !.ssm = Activate(w.ssm).m, !.fileStream.paused = FALSE]

\* the setTimeout callback that resumes a paused stream
ResumeCallback(w) ==
    IF Is(w.ssm, "paused")
      THEN [w EXCEPT !.ssm = Activate(w.ssm).m, !.fileStream.paused = FALSE]
      ELSE w

\* the memory monitor's critical handler
MemoryCriticalHandler(w) ==
    IF Is(w.ssm, "active")
      THEN [w EXCEPT !.ssm = Pause(w.ssm).m,
                     !.fileStream.paused = TRUE,
                     !.timers.resume = @ + 1]
      ELSE w

\* terminationHandler.js, unregisterUpload(uploadId)
UnregisterUpload(w) ==
    [w EXCEPT !.activeUploads = @ \ {UploadId}, !.fx.unregister = @ + 1]

\* the finally block
Finally(w) == UnregisterUpload(CleanupResources(w))

\* the catch block with the error err, followed by the finally block
CatchBlock(w, err) ==
    LET w1 ==
          IF err.name = "AbortError" \/ Is(w.ssm, "aborted")
            THEN [ (IF ~Is(w.ssm, "aborted")
                      THEN [w EXCEPT !.fx.onAbort = @ + 1] ELSE w)
                   EXCEPT !.result = ClassifyError(err) ]
            ELSE [ (IF ~Is(w.ssm, "error")
                      THEN [w EXCEPT !.fx.onError = @ + 1] ELSE w)
                   EXCEPT !.result = err ]
    IN  [Finally(w1) EXCEPT !.pc = "threw"]

\* the branch taken for a response that is not ok, once its text is read
NotOkBranch(w, detailTokens) ==
    LET classifiedError == ClassifyError(HttpError(w.status, detailTokens))
        w1 == [w EXCEPT !.fx.onError = @ + 1]
    IN  CatchBlock(w1, classifiedError)

\* the result is at hand: onSuccess, return, and the finally block
SuccessBranch(w) ==
    [Finally([w EXCEPT !.fx.onSuccess = @ + 1]) EXCEPT !.pc = "returned"]

\* controller.abort(reason) of the AbortController: the signal becomes aborted
\* with that reason.  firedIn and firedPc record the state of the machine and
\* the position of streamingUpload at that moment.
Fire(w, reason) ==
    [w EXCEPT !.sig.aborted = TRUE, !.sig.reason = reason,
              !.sig.firedIn = w.ssm.state, !.sig.firedPc = w.pc]

ControllerAbort_Unguarded(w, reason) ==
    Fire([w EXCEPT !.sig.deadline = FALSE, !.sig.calls = @ + 1], reason)

\* uploadController.js, abort(reason): the cancel handle, without the dispatch
\* of the abort event; calls counts its invocations
ControllerAbort(w, reason) ==
    LET w1 == [w EXCEPT !.sig.deadline = FALSE, !.sig.calls = @ + 1] IN
    IF ~w1.sig.aborted
      THEN Fire(w1, reason)
      ELSE w1

\* terminationHandler.js, registerUpload(uploadId, controller).  For an attempt
\* given the caller's signal the registered object is
\* { abort: () => abortSignal.abort() }; an AbortSignal has no abort method, so
\* the call throws and registerUpload catches it.
RegisterUpload(w) ==
    IF isShuttingDown
      THEN IF w.sig.own THEN ControllerAbort(w, "shutdown") ELSE w
      ELSE [w EXCEPT !.activeUploads = @ \cup {UploadId}]

\* streamingUpload from its call to its first await of fetch
StartUpload(w) ==
    LET w1 == RegisterUpload([w EXCEPT !.sig.deadline = w.sig.own])
        w2 == [w1 EXCEPT !.timers.tracker = TRUE, !.timers.monitor = TRUE,
                         !.sig.listener = TRUE,
                         !.ssm = Activate(NewStreamState).m]
    IN  IF w2.sig.aborted
          THEN CatchBlock(w2, FetchAborted)
          ELSE [w2 EXCEPT !.pc = "fetching"]

\* what fs.statSync(filePath) throws for a file that cannot be examined
StatErrors == { RawError("Error", "ENOENT", {}, 0) }

\* streamingUpload when fs.statSync(filePath) throws: the controller exists (its
\* deadline timer runs), nothing else does, and the call rejects with the error
\* as thrown
StatFails(w, err) ==
    [w EXCEPT !.sig.deadline = w.sig.own, !.pc = "threwInSetup", !.result = err]

\* The abort event is dispatched: the attempt's listener runs, then whatever the
\* function is awaiting rejects.
DispatchAbort(w) ==
    LET w1 == IF w.sig.listener THEN AbortListener(w) ELSE w IN
    CASE w.pc = "fetching"    -> CatchBlock(w1, FetchAborted)
      [] w.pc = "readingJson" -> CatchBlock(w1, FetchAborted)
      [] w.pc = "readingText" -> NotOkBranch(w1, {})
      [] OTHER                -> w1

StreamErrors == { RawError("Error", "EIO", {}, 0), RawError("Error", "EBUSY", {}, 0) }
FetchErrors  == { RawError("FetchError", "ECONNRESET", {}, 0) }
Statuses     == {200, 204, 401, 500}
DetailTokens == { {}, {"timeout"} }
\* 'Manual abort', 'User interrupted process'
CallerReasons == {"manual", "interrupt"}

HasSettled == uPc \in {"returned", "threw"}
Started  == uPc \notin {"notStarted", "threwInSetup"}

Flowing ==
    /\ Started
    /\ ~fileStream.paused /\ ~fileStream.destroyed
    /\ ~fileStream.ended /\ ~fileStream.errored

UploadInit ==
    /\ uPc = "notStarted"
    /\ uStatus = 0
    /\ uResult = NoError
    /\ \E own \in BOOLEAN, aborted \in BOOLEAN :
          /\ aborted => ~own
          /\ sig = [ own |-> own, aborted |-> aborted,
                     reason |-> IF aborted THEN "manual" ELSE Null,
                     listener |-> FALSE, deadline |-> FALSE,
                     calls |-> IF aborted THEN 1 ELSE 0,
                     firedIn |-> IF aborted THEN "initial" ELSE Null,
                     firedPc |-> IF aborted THEN "notStarted" ELSE Null ]
    /\ ssm = NewStreamState
    /\ \E n \in 0..MaxChunks :
          fileStream = [ paused |-> FALSE, destroyed |-> FALSE, ended |-> FALSE,
                         errored |-> FALSE, chunksLeft |-> n ]
    /\ bytesUploaded = 0
    /\ timers = [tracker |-> FALSE, monitor |-> FALSE, resume |-> 0]
    /\ activeUploads = {}
    /\ isShuttingDown \in BOOLEAN
    /\ memCriticals = 0
    /\ bytesAcked = 0
    /\ fx = NoEffects

Keep == UNCHANGED <<isShuttingDown, memCriticals, bytesAcked>>

\* streamingUpload({...}) is called; the file can be examined or not
U_Start ==
    /\ uPc = "notStarted"
    /\ \/ Commit(StartUpload(World))
       \/ \E err \in StatErrors : Commit(StatFails(World, err))
    /\ Keep

\* the stream delivers a chunk
U_Data ==
    \E rateLow \in BOOLEAN :
        /\ Flowing /\ fileStream.chunksLeft > 0
        /\ Commit(DataHandler([World EXCEPT !.fileStream.chunksLeft = @ - 1], rateLow))
        /\ Keep

\* the stream has delivered its last chunk
U_End ==
    /\ Flowing /\ fileStream.chunksLeft = 0
    /\ Commit(EndHandler([World EXCEPT !.fileStream.ended = TRUE]))
    /\ Keep

\* a read of the file fails
U_StreamError ==
    \E err \in StreamErrors :
        /\ Started
        /\ ~fileStream.destroyed /\ ~fileStream.ended /\ ~fileStream.errored
        /\ Commit(StreamErrorHandler([World EXCEPT !.fileStream.errored = TRUE], err))
        /\ Keep

\* the caller invokes the cancel handle of the signal it passed in (for the
\* first time or again); the abort event is dispatched the first time only
U_Abort ==
    \E reason \in CallerReasons :
        /\ Started /\ ~sig.own /\ sig.calls < MaxAbortCalls
        /\ LET w1 == ControllerAbort(World, reason) IN
           Commit(IF sig.aborted THEN w1 ELSE DispatchAbort(w1))
        /\ Keep

\* terminationHandler.js, handleTermination(reason): every registered
\* controller's abort is called, then the registry is cleared.  The abort of an
\* attempt given the caller's signal throws and is caught (see RegisterUpload).
U_Termination ==
    /\ Started /\ ~isShuttingDown
    /\ isShuttingDown' = TRUE
    /\ LET w  == World
           w1 == IF UploadId \in w.activeUploads /\ w.sig.own
                   THEN LET c == ControllerAbort(w, "termination") IN
                        IF w.sig.aborted THEN c ELSE DispatchAbort(c)
                   ELSE w
       IN  Commit([w1 EXCEPT !.activeUploads = {}])
    /\ UNCHANGED <<memCriticals, bytesAcked>>

\* the deadline timer of the attempt's own controller fires
U_Deadline ==
    /\ sig.deadline
    /\ IF sig.aborted
         THEN Commit([World EXCEPT !.sig.deadline = FALSE])
         ELSE Commit(DispatchAbort(Fire([World EXCEPT !.sig.deadline = FALSE],
                                        "timeout")))
    /\ Keep

\* fetch resolves with a response
U_Response ==
    \E status \in Statuses :
        /\ uPc = "fetching"
        /\ LET w == [World EXCEPT !.status = status] IN
           IF status \in 200..299
             THEN IF status = 204
                    THEN Commit(SuccessBranch(w))
                    ELSE Commit([w EXCEPT !.pc = "readingJson"])
             ELSE Commit([w EXCEPT !.pc = "readingText"])
        /\ Keep

\* response.json() resolves
U_JsonRead ==
    /\ uPc = "readingJson"
    /\ Commit(SuccessBranch(World))
    /\ Keep

\* response.text() resolves
U_TextRead ==
    \E details \in DetailTokens :
        /\ uPc = "readingText"
        /\ Commit(NotOkBranch(World, details))
        /\ Keep

\* fetch rejects with a network error
U_FetchFails ==
    \E err \in FetchErrors :
        /\ uPc = "fetching"
        /\ Commit(CatchBlock(World, err))
        /\ Keep

\* a pending resume timer fires
U_ResumeTimer ==
    /\ timers.resume > 0
    /\ Commit(ResumeCallback([World EXCEPT !.timers.resume = @ - 1]))
    /\ Keep

\* the memory monitor reports a critical level
U_MemoryCritical ==
    /\ timers.monitor
    /\ memCriticals < MaxCritical
    /\ memCriticals' = memCriticals + 1
    /\ Commit(MemoryCriticalHandler(World))
    /\ UNCHANGED <<isShuttingDown, bytesAcked>>

\* The form is piped into a PassThrough whose 'data' listener writes to the
\* request.  A pipe resumes its source when its destination drains, and the
\* form passes resume() on to the file stream it is reading, whatever the state
\* machine says.
U_TransportResume ==
    /\ uPc = "fetching"
    /\ fileStream.paused
    /\ ~fileStream.destroyed /\ ~fileStream.ended /\ ~fileStream.errored
    /\ Commit([World EXCEPT !.fileStream.paused = FALSE])
    /\ Keep

\* the transport has sent the chunks read so far and the server has taken them
U_Ack ==
    /\ uPc = "fetching"
    /\ bytesAcked < bytesUploaded
    /\ bytesAcked' = bytesUploaded
    /\ UNCHANGED <<uPc, uStatus, uResult, sig, ssm, fileStream, bytesUploaded, timers,
                   activeUploads, isShuttingDown, memCriticals, fx>>

\* the progress tracker's interval fires: the progress callback is called
U_ProgressTick ==
    /\ timers.tracker
    /\ fx.onProgress < MaxTicks
    /\ Commit([World EXCEPT !.fx.onProgress = @ + 1])
    /\ Keep

UploadNext ==
    \/ U_Start /\ UNCHANGED <<smVars, rVars, mVars, tVars, cVars>>
    \/ U_Data /\ UNCHANGED <<smVars, rVars, mVars, tVars, cVars>>
    \/ U_End /\ UNCHANGED <<smVars, rVars, mVars, tVars, cVars>>
    \/ U_StreamError /\ UNCHANGED <<smVars, rVars, mVars, tVars, cVars>>
    \/ U_Abort /\ UNCHANGED <<smVars, rVars, mVars, tVars, cVars>>
    \/ U_Termination /\ UNCHANGED <<smVars, rVars, mVars, tVars, cVars>>
    \/ U_Deadline /\ UNCHANGED <<smVars, rVars, mVars, tVars, cVars>>
    \/ U_Response /\ UNCHANGED <<smVars, rVars, mVars, tVars, cVars>>
    \/ U_JsonRead /\ UNCHANGED <<smVars, rVars, mVars, tVars, cVars>>
    \/ U_TextRead /\ UNCHANGED <<smVars, rVars, mVars, tVars, cVars>>
    \/ U_FetchFails /\ UNCHANGED <<smVars, rVars, mVars, tVars, cVars>>
    \/ U_ResumeTimer /\ UNCHANGED <<smVars, rVars, mVars, tVars, cVars>>
    \/ U_MemoryCritical /\ UNCHANGED <<smVars, rVars, mVars, tVars, cVars>>
    \/ U_ProgressTick /\ UNCHANGED <<smVars, rVars, mVars, tVars, cVars>>
    \/ U_Ack /\ UNCHANGED <<smVars, rVars, mVars, tVars, cVars>>
    \/ U_TransportResume /\ UNCHANGED <<smVars, rVars, mVars, tVars, cVars>>

UploadIdle ==
    /\ uPc = "idle"
    /\ uStatus = 0
    /\ uResult = NoError
    /\ sig = [ own |-> FALSE, aborted |-> FALSE, reason |-> Null,
               listener |-> FALSE, deadline |-> FALSE, calls |-> 0,
               firedIn |-> Null, firedPc |-> Null ]
    /\ ssm = NewStreamState
    /\ fileStream = [ paused |-> FALSE, destroyed |-> FALSE, ended |-> FALSE,
                      errored |-> FALSE, chunksLeft |-> 0 ]
    /\ bytesUploaded = 0
    /\ timers = [tracker |-> FALSE, monitor |-> FALSE, resume |-> 0]
    /\ activeUploads = {}
    /\ isShuttingDown = FALSE
    /\ memCriticals = 0
    /\ bytesAcked = 0
    /\ fx = NoEffects

(***************************************************************************)
(* Several attempts in flight at once.  Each attempt is reduced to what    *)
(* another attempt or the termination handler can reach: its uploadId, its *)
(* controller (own, signal, deadline timer), the state of its state        *)
(* machine and its entries in the registry.  The abort event, the          *)
(* rejection of fetch, the catch block and the finally block of a          *)
(* cancelled attempt are taken as one step.                                *)
(***************************************************************************)
Attempts  == 1..NumAttempts
UploadIds == {"u1", "u2"}

\* a key of activeUploads: the uploadId itself (stamp 0), or the uploadId with
\* the `-${Date.now()}` suffix registerUpload gives to a duplicate
Key(uploadId, stamp) == <<uploadId, stamp>>

\* activeUploads.set(uploadId, controller), after the duplicate check
RegistrySet(reg, i, uploadId) ==
    LET key == IF \E e \in reg : e.key = Key(uploadId, 0)
                 THEN Key(uploadId, i) ELSE Key(uploadId, 0)
    IN  reg \cup {[key |-> key, owner |-> i]}

\* unregisterUpload(uploadId), as the finally block of attempt i calls it
RegistryDelete(reg, i, uploadId) == {e \in reg : e.key # Key(uploadId, 0)}

NewAttempt(uploadId, own) ==
    [ pc |-> "notStarted", uploadId |-> uploadId, own |-> own, aborted |-> FALSE,
      reason |-> Null, deadline |-> FALSE, state |-> "initial" ]

\* the attempt is cancelled while in flight: the listener makes the state
\* aborted, fetch rejects, and the attempt settles
Cancelled(a, reason) ==
    [a EXCEPT !.aborted = TRUE, !.reason = reason, !.deadline = FALSE,
              !.state = "aborted", !.pc = "settled"]

\* config.api.abortOnTimeout; the calls of handleTermination and the cancel
\* handles it and registerUpload have invoked; its two exit timers; whether the
\* process is still running
NewProcess(abortOnTimeout) ==
    [ abortOnTimeout |-> abortOnTimeout, requests |-> 0, handleCalls |-> 0,
      forceExitTimeout |-> FALSE, normalExitTimer |-> FALSE, running |-> TRUE,
      exitCalled |-> FALSE ]

MultiInit ==
    /\ mAttempts \in [Attempts -> {NewAttempt(u, own) : u \in UploadIds, own \in BOOLEAN}]
    /\ mRegistry = {}
    /\ mShutting = FALSE
    /\ mProc \in {NewProcess(b) : b \in BOOLEAN}

MultiIdle ==
    /\ mAttempts = [i \in Attempts |-> NewAttempt("u1", FALSE)]
    /\ mRegistry = {}
    /\ mShutting = FALSE
    /\ mProc = NewProcess(TRUE)

\* streamingUpload is called for attempt i: controller, registerUpload,
\* listeners, activate, fetch.  During shutdown registerUpload aborts an own
\* controller at once; the attempt then fails in fetch and its finally block
\* completes the state machine and unregisters.
M_Start(i) ==
    LET a == mAttempts[i] IN
    /\ mProc.running
    /\ a.pc = "notStarted"
    /\ IF mShutting
         THEN /\ IF a.own
                   THEN /\ mAttempts' = [mAttempts EXCEPT ![i] =
                               [a EXCEPT !.aborted = TRUE, !.reason = "shutdown",
                                         !.state = "completed", !.pc = "settled"]]
                        /\ mRegistry' = RegistryDelete(mRegistry, i, a.uploadId)
                   ELSE /\ mAttempts' = [mAttempts EXCEPT ![i] =
                               [a EXCEPT !.state = "active", !.pc = "inFlight"]]
                        /\ UNCHANGED mRegistry
              /\ mProc' = [mProc EXCEPT !.handleCalls = @ + 1]
         ELSE /\ mAttempts' = [mAttempts EXCEPT ![i] =
                     [a EXCEPT !.state = "active", !.pc = "inFlight",
                               !.deadline = a.own]]
              /\ mRegistry' = RegistrySet(mRegistry, i, a.uploadId)
              /\ UNCHANGED mProc
    /\ UNCHANGED mShutting

\* the caller cancels attempt i through the signal it passed in
M_Cancel(i) ==
    LET a == mAttempts[i] IN
    /\ mProc.running
    /\ a.pc = "inFlight" /\ ~a.own /\ ~a.aborted
    /\ mAttempts' = [mAttempts EXCEPT ![i] = Cancelled(a, "manual")]
    /\ mRegistry' = RegistryDelete(mRegistry, i, a.uploadId)
    /\ UNCHANGED <<mShutting, mProc>>

\* the deadline timer of attempt i's own controller fires; on a settled
\* attempt only the signal changes.  The callback does not look at
\* config.api.abortOnTimeout.
M_Deadline(i) ==
    LET a == mAttempts[i] IN
    /\ mProc.running
    /\ a.deadline /\ ~a.aborted
    /\ IF a.pc = "inFlight"
         THEN /\ mAttempts' = [mAttempts EXCEPT ![i] = Cancelled(a, "timeout")]
              /\ mRegistry' = RegistryDelete(mRegistry, i, a.uploadId)
         ELSE /\ mAttempts' = [mAttempts EXCEPT ![i] =
                     [a EXCEPT !.aborted = TRUE, !.reason = "timeout",
                               !.deadline = FALSE]]
              /\ UNCHANGED mRegistry
    /\ UNCHANGED <<mShutting, mProc>>

\* attempt i gets its response and settles; the controller's cleanup (which
\* clears the deadline timer) is skipped when the stream had ended before
M_Finish(i) ==
    LET a == mAttempts[i] IN
    \E ended \in BOOLEAN :
        /\ mProc.running
        /\ a.pc = "inFlight"
        /\ mAttempts' = [mAttempts EXCEPT ![i] =
               [a EXCEPT !.state = "completed", !.pc = "settled",
                         !.deadline = IF ended THEN @ ELSE FALSE]]
        /\ mRegistry' = RegistryDelete(mRegistry, i, a.uploadId)
        /\ UNCHANGED <<mShutting, mProc>>

\* handleTermination(reason): the abort of every registered controller is
\* called, then the registry is cleared.  The entry of an attempt given the
\* caller's signal throws when called and the attempt goes on.
\* handleTermination past its isShuttingDown test: the abort of every
\* registered controller is called, the registry is cleared, and two timers
\* are set: one that would call process.exit after 5 s and one that clears it
\* after 1 s.  The entry of an attempt given the caller's signal throws when
\* called and the attempt goes on.
BeginShutdown ==
    /\ mShutting' = TRUE
    /\ mAttempts' = [i \in Attempts |->
          LET a == mAttempts[i] IN
          IF (\E e \in mRegistry : e.owner = i) /\ a.own
            THEN IF a.aborted THEN [a EXCEPT !.deadline = FALSE]
                 ELSE IF a.pc = "inFlight" THEN Cancelled(a, "termination")
                 ELSE [a EXCEPT !.aborted = TRUE, !.reason = "termination",
                                !.deadline = FALSE]
            ELSE a]
    /\ mRegistry' = {}
    /\ mProc' = [mProc EXCEPT !.requests = @ + 1,
                              !.handleCalls = @ + Cardinality(mRegistry),
                              !.forceExitTimeout = TRUE,
                              !.normalExitTimer = TRUE]

HandleTermination_Unguarded == BeginShutdown

\* handleTermination(reason): a call during shutdown returns at once
HandleTermination ==
    IF mShutting
      THEN /\ mProc' = [mProc EXCEPT !.requests = @ + 1]
           /\ UNCHANGED <<mAttempts, mRegistry, mShutting>>
      ELSE BeginShutdown

\* SIGINT, SIGTERM or an uncaught exception
M_Terminate ==
    /\ mProc.running
    /\ mProc.requests < MaxTerminations
    /\ HandleTermination

\* the 1 s timer of handleTermination fires: it clears the 5 s timer.  Set in
\* the same call with the shorter delay, it always fires first, so the
\* callback of the 5 s timer never runs.
M_NormalExitTimer ==
    /\ mProc.running
    /\ mProc.normalExitTimer
    /\ mProc' = [mProc EXCEPT !.normalExitTimer = FALSE, !.forceExitTimeout = FALSE]
    /\ UNCHANGED <<mAttempts, mRegistry, mShutting>>

\* Node ends the process when nothing is pending any more: every attempt has
\* settled and no timer is set
M_ProcessEnds ==
    /\ mProc.running
    /\ ~mProc.normalExitTimer /\ ~mProc.forceExitTimeout
    /\ \A i \in Attempts : mAttempts[i].pc = "settled" /\ ~mAttempts[i].deadline
    /\ mProc' = [mProc EXCEPT !.running = FALSE]
    /\ UNCHANGED <<mAttempts, mRegistry, mShutting>>

MultiNext ==
    \/ (\E i \in Attempts : M_Start(i)) /\ UNCHANGED <<smVars, rVars, uVars, tVars, cVars>>
    \/ (\E i \in Attempts : M_Cancel(i)) /\ UNCHANGED <<smVars, rVars, uVars, tVars, cVars>>
    \/ (\E i \in Attempts : M_Deadline(i)) /\ UNCHANGED <<smVars, rVars, uVars, tVars, cVars>>
    \/ (\E i \in Attempts : M_Finish(i)) /\ UNCHANGED <<smVars, rVars, uVars, tVars, cVars>>
    \/ M_Terminate /\ UNCHANGED <<smVars, rVars, uVars, tVars, cVars>>
    \/ M_NormalExitTimer /\ UNCHANGED <<smVars, rVars, uVars, tVars, cVars>>
    \/ M_ProcessEnds /\ UNCHANGED <<smVars, rVars, uVars, tVars, cVars>>

(***************************************************************************)
(* utils/progressTracker.js: ProgressTracker                               *)
(***************************************************************************)
\* config.api.stallThreshold || 3
StallThreshold == 3
\* progressInterval || 30000
ProgressInterval == 30000

\* the percentage of a progress report: a number, or the string 'unknown'
Percentage(bytes, totalBytes) ==
    IF totalBytes # 0
      THEN LET rounded == (200 * bytes + totalBytes) \div (2 * totalBytes)
           IN  [known |-> TRUE, value |-> IF rounded < 100 THEN rounded ELSE 100]
      ELSE [known |-> FALSE, value |-> 0]

\* the constructor followed by init(): the size lookup gives totalBytes
NewTracker(totalBytes) ==
    [ totalBytes |-> totalBytes, bytesUploaded |-> 0, lastBytesUploaded |-> 0,
      stallCounter |-> 0, running |-> FALSE ]

TrackerInit ==
    /\ tracker \in {NewTracker(n) : n \in 0..MaxFileBytes}
    /\ tLog = << >>

TrackerIdle ==
    /\ tracker = NewTracker(0)
    /\ tLog = << >>

\* start(progressCallback, stallCallback)
T_Start ==
    /\ ~tracker.running /\ tLog = << >>
    /\ tracker' = [tracker EXCEPT !.running = TRUE]
    /\ UNCHANGED tLog

\* update(bytesUploaded), called by the 'data' handler
T_Update ==
    /\ tracker.bytesUploaded < MaxFileBytes
    /\ tracker.bytesUploaded < tracker.totalBytes \/ tracker.totalBytes = 0
    /\ tracker' = [tracker EXCEPT !.bytesUploaded = @ + 1]
    /\ UNCHANGED tLog

\* the interval callback: stall detection, then the progress report
T_Tick ==
    /\ tracker.running
    /\ Len(tLog) < MaxTrackerTicks
    /\ LET noProgress == tracker.bytesUploaded = tracker.lastBytesUploaded
           counter == IF noProgress THEN tracker.stallCounter + 1 ELSE 0
           fired   == noProgress /\ counter >= StallThreshold
       IN  /\ tracker' = [tracker EXCEPT !.stallCounter = counter,
                                         !.lastBytesUploaded = tracker.bytesUploaded]
           /\ tLog' = Append(tLog,
                  [ progress |-> ~noProgress, counter |-> counter, fired |-> fired,
                    stallTime |-> IF fired
                                    THEN (counter * ProgressInterval) \div 1000 ELSE 0,
                    bytesUploaded |-> tracker.bytesUploaded,
                    percentage |-> Percentage(tracker.bytesUploaded, tracker.totalBytes),
                    stalled |-> counter >= StallThreshold ])

\* stop()
T_Stop ==
    /\ tracker.running
    /\ tracker' = [tracker EXCEPT !.running = FALSE]
    /\ UNCHANGED tLog

TrackerNext ==
    \/ T_Start /\ UNCHANGED <<smVars, rVars, uVars, mVars, cVars>>
    \/ T_Update /\ UNCHANGED <<smVars, rVars, uVars, mVars, cVars>>
    \/ T_Tick /\ UNCHANGED <<smVars, rVars, uVars, mVars, cVars>>
    \/ T_Stop /\ UNCHANGED <<smVars, rVars, uVars, mVars, cVars>>

(***************************************************************************)
(* utils/errorClassifier.js: calls of classifyError                        *)
(*                                                                         *)
(* classifyError reads the name, the code and the message of the error it  *)
(* is given, sets errorType, category, recoverable, context and timestamp  *)
(* on that same object and returns it.                                     *)
(***************************************************************************)
ErrorNames == {"Error", "AbortError"}

\* the codes classifyError has a rule for
HandledCodes == {"ENOENT", "EACCES", "EPERM", "EBUSY", "EISDIR", "ENOTDIR",
                 "ECONNRESET", "ECONNREFUSED", "ETIMEDOUT", "ENOTFOUND", "EPIPE"}

\* no code, the handled codes, and "too many open files"
ErrorCodes == {""} \cup HandledCodes \cup {"EMFILE"}

\* what /Status: (\d+)/ may find after 'HTTP error! Status:' (0: no number)
HttpStatuses == {0, 302, 400, 401, 403, 404, 413, 429, 500, 503}

Messages == {t \in SUBSET MessageTokens : Cardinality(t) <= MaxTokens}

RawErrors ==
    { e \in { RawError(n, c, t, s) : n \in ErrorNames, c \in ErrorCodes,
                                     t \in Messages, s \in HttpStatuses } :
        e.status # 0 => "HTTP error! Status:" \in e.tokens }

\* an error of some other call made in between
OtherErrors == { HttpError(500, {}) }

Triple(e) == <<e.errorType, e.category, e.recoverable>>

\* what classifyError reads of its argument
Read(e) == <<e.name, e.code, e.tokens, e.status>>

ClassifyCall(kind, e) == [call |-> kind, in |-> e, out |-> ClassifyError(e)]

ClassifyInit ==
    /\ cErr \in RawErrors
    /\ cLog = << >>

ClassifyIdle ==
    /\ cErr = NoError
    /\ cLog = << >>

\* classifyError(error): the object is classified in place and returned
K_Classify ==
    /\ Len(cLog) < MaxClassifyCalls
    /\ cErr' = ClassifyError(cErr)
    /\ cLog' = Append(cLog, ClassifyCall("same", cErr))

\* classifyError on another raw error with the same name, code and message
K_ClassifyCopy ==
    /\ Len(cLog) < MaxClassifyCalls
    /\ cLog' = Append(cLog, ClassifyCall("copy",
                   RawError(cErr.name, cErr.code, cErr.tokens, cErr.status)))
    /\ UNCHANGED cErr

\* classifyError on an unrelated error
K_ClassifyOther ==
    \E e \in OtherErrors :
        /\ Len(cLog) < MaxClassifyCalls
        /\ cLog' = Append(cLog, ClassifyCall("other", e))
        /\ UNCHANGED cErr

ClassifyNext ==
    \/ K_Classify /\ UNCHANGED <<smVars, rVars, uVars, mVars, tVars>>
    \/ K_ClassifyCopy /\ UNCHANGED <<smVars, rVars, uVars, mVars, tVars>>
    \/ K_ClassifyOther /\ UNCHANGED <<smVars, rVars, uVars, mVars, tVars>>


(***************************************************************************)
(* Specifications                                                          *)
(***************************************************************************)
SMIdle ==
    /\ machine = NewStreamState
    /\ smCall = NoCall
    /\ smCalls = 0

RetryIdle ==
    /\ rPc = "idle"
    /\ rRetries = 0
    /\ rBackoff0 = 0
    /\ rPredicate = "default"
    /\ rHasSignal = FALSE
    /\ rAborted = FALSE
    /\ rAbortedAtCall = FALSE
    /\ rAttempt = 1
    /\ rBackoff = 0
    /\ rLog = << >>
    /\ rFetchSignal = "unfired"

InitSM == SMInit /\ RetryIdle /\ UploadIdle /\ MultiIdle /\ TrackerIdle /\ ClassifyIdle
SpecSM == InitSM /\ [][SMNext]_vars

InitRetry == RetryInit /\ SMIdle /\ UploadIdle /\ MultiIdle /\ TrackerIdle /\ ClassifyIdle
SpecRetry == InitRetry /\ [][RetryNext]_vars

Init == UploadInit /\ SMIdle /\ RetryIdle /\ MultiIdle /\ TrackerIdle /\ ClassifyIdle

InitMulti == MultiInit /\ SMIdle /\ RetryIdle /\ UploadIdle /\ TrackerIdle /\ ClassifyIdle
SpecMulti == InitMulti /\ [][MultiNext]_vars

InitTracker == TrackerInit /\ SMIdle /\ RetryIdle /\ UploadIdle /\ MultiIdle /\ ClassifyIdle
SpecTracker == InitTracker /\ [][TrackerNext]_vars

InitClassify == ClassifyInit /\ SMIdle /\ RetryIdle /\ UploadIdle /\ MultiIdle /\ TrackerIdle
SpecClassify == InitClassify /\ [][ClassifyNext]_vars

Spec == Init /\ [][UploadNext]_vars

\* A set resume timer fires.
SpecFair ==
    /\ Spec
    /\ WF_vars(U_ResumeTimer /\ UNCHANGED <<smVars, rVars, mVars, tVars, cVars>>)

\* The program goes on to start its uploads, a set timer fires, and Node ends
\* the process once nothing is pending.  A request need not ever complete.
SpecMultiFair ==
    /\ SpecMulti
    /\ \A i \in Attempts :
          /\ WF_vars(M_Start(i) /\ UNCHANGED <<smVars, rVars, uVars, tVars, cVars>>)
          /\ WF_vars(M_Deadline(i) /\ UNCHANGED <<smVars, rVars, uVars, tVars, cVars>>)
    /\ WF_vars(M_NormalExitTimer /\ UNCHANGED <<smVars, rVars, uVars, tVars, cVars>>)
    /\ WF_vars(M_ProcessEnds /\ UNCHANGED <<smVars, rVars, uVars, tVars, cVars>>)

\* An invoked operation settles and a set timer fires.
SpecRetryFair ==
    /\ SpecRetry
    /\ WF_vars(R_Start /\ UNCHANGED <<smVars, uVars, mVars, tVars, cVars>>)
    /\ WF_vars(R_OpResolves /\ UNCHANGED <<smVars, uVars, mVars, tVars, cVars>>)
    /\ WF_vars(R_OpRejects /\ UNCHANGED <<smVars, uVars, mVars, tVars, cVars>>)
    /\ WF_vars(R_WaitTimeout /\ UNCHANGED <<smVars, uVars, mVars, tVars, cVars>>)

(***************************************************************************)
(* Properties of the stream state machine (checked under SpecSM)           *)
(***************************************************************************)
TerminalStates == {"completed", "aborted", "error"}

Called == smCall.method # "none"

\* C4: once the state is completed, aborted or error, every further call of
\* transition, activate, pause, complete, abort or fail returns false and
\* leaves the object as it was.
C4_TerminalIsAbsorbing ==
    (Called /\ smCall.before.state \in TerminalStates)
        => (~smCall.ret /\ machine = smCall.before)

\* a call on an aborted machine asking for the error state has been made
C4_Witness ==
    /\ smCall.method = "fail"
    /\ smCall.before.state = "aborted"
    /\ smCall.error = "E1"

\* The transition table as the specification gives it.
C5_Table ==
    { <<"initial", "active">>, <<"initial", "aborted">>, <<"initial", "error">>,
      <<"active", "paused">>, <<"active", "completed">>, <<"active", "aborted">>,
      <<"active", "error">>,
      <<"paused", "active">>, <<"paused", "aborted">>, <<"paused", "error">> }

\* C5: a request returns true exactly when (current state, requested state)
\* is in the table; every other request returns false and leaves the state
\* and the stored error unchanged.
C5_TransitionTable ==
    Called =>
        /\ smCall.ret <=> (<<smCall.before.state, smCall.newState>> \in C5_Table)
        /\ smCall.ret => machine.state = smCall.newState
        /\ ~smCall.ret => (machine.state = smCall.before.state
                            /\ machine.error = smCall.before.error)

\* a paused machine has been asked to complete, with an error supplied
C5_Witness ==
    /\ smCall.before.state = "paused"
    /\ smCall.newState = "completed"
    /\ smCall.error # Null
    /\ ~smCall.ret

\* C6: the observer is called exactly once for each accepted transition, in
\* order, with that transition's (oldState, newState), and never for a
\* rejected one; the history gains exactly one entry per accepted transition.
C6_ObserverOncePerTransition ==
    /\ Called =>
         IF smCall.ret
           THEN /\ machine.observed =
                      Append(smCall.before.observed,
                             [old |-> smCall.before.state, new |-> smCall.newState,
                              error |-> smCall.error])
                /\ machine.transitions =
                      Append(smCall.before.transitions,
                             [from |-> smCall.before.state, to |-> smCall.newState])
           ELSE /\ machine.observed = smCall.before.observed
                /\ machine.transitions = smCall.before.transitions
    /\ Len(machine.transitions) = Len(machine.observed) + 1
    /\ \A i \in 1..Len(machine.observed) :
         /\ machine.observed[i].old = machine.transitions[i + 1].from
         /\ machine.observed[i].new = machine.transitions[i + 1].to

\* two transitions were accepted and a later request was rejected
C6_Witness ==
    /\ Len(machine.observed) = 2
    /\ Called /\ ~smCall.ret
    /\ smCalls = 3

(***************************************************************************)
(* Properties of retryOperation (checked under SpecRetry / SpecRetryFair)  *)
(***************************************************************************)
Indexes(ev) == {i \in 1..Len(rLog) : rLog[i].ev = ev}
Invocations == Cardinality(Indexes("call"))
Waits       == Cardinality(Indexes("wait"))
Settled     == rPc \in {"returned", "thrown"}

\* C7: the operation is invoked at most retries + 1 times, and the call
\* settles whenever every invocation settles.
C7_BoundedAndSettles ==
    /\ [](Invocations <= rRetries + 1)
    /\ <>Settled

\* every allowed attempt was made and failed
C7_Witness ==
    /\ rRetries >= 1
    /\ Invocations = rRetries + 1
    /\ rPc = "thrown"

\* C8: an attempt that fails with an error of category abort, or of name
\* AbortError, is never retried: the error is thrown at once.
C8_AbortNeverRetried ==
    \A i \in Indexes("fail") :
        (rLog[i].err.category = "abort" \/ rLog[i].err.name = "AbortError") =>
            /\ Len(rLog) = i + 1
            /\ rLog[i + 1] = Event("throw", rLog[i].err, 0)
            /\ rPc = "thrown"

\* a first attempt failed with an abort-category error that is flagged
\* recoverable, retries were left, and the predicate is the default one
C8_Witness ==
    /\ rPredicate = "default"
    /\ rRetries >= 1
    /\ Len(rLog) = 3
    /\ rLog[2].ev = "fail"
    /\ rLog[2].err.category = "abort"
    /\ IsRecoverableError(rLog[2].err)

\* C9, first part: when the predicate rejects the classified error of a failed
\* attempt, that error is thrown with no further attempt and no wait.
C9_RejectedErrorIsThrown ==
    \A i \in Indexes("fail") :
        ~RetryPredicate(rPredicate, rLog[i].err) =>
            /\ Len(rLog) = i + 1
            /\ rLog[i + 1] = Event("throw", rLog[i].err, 0)
            /\ rLog[i].err.category # "none"
            /\ rPc = "thrown"

IsHttp401(e) == "HTTP error! Status:" \in e.tokens /\ e.status = 401

\* C9, second part: a first attempt that fails with an HTTP 401 error gives
\* exactly one invocation (with the default predicate).
C9_Http401OneInvocation ==
    (rPredicate = "default" /\ Len(rLog) >= 2 /\ rLog[2].ev = "fail"
        /\ IsHttp401(rLog[2].err))
        => (Invocations = 1 /\ Waits = 0)

\* C9: both parts.
C9_NonRecoverableNotRetried ==
    C9_RejectedErrorIsThrown /\ C9_Http401OneInvocation

\* C10: with the signal already aborted at the call, the operation is never
\* invoked and the call rejects with an abort-category error.
C10_AbortedAtCall ==
    (rAbortedAtCall /\ rPc # "start") =>
        /\ rPc = "thrown"
        /\ Invocations = 0
        /\ Len(rLog) = 1
        /\ rLog[1].ev = "throw"
        /\ rLog[1].err.category = "abort"

\* the call was made with an aborted signal and has settled
C10_Witness ==
    rAbortedAtCall /\ Settled /\ rRetries >= 1

\* C11: when the signal fires during a backoff wait, the wait ends at once:
\* the call is never left waiting with its signal aborted, the log ends with
\* the aborted wait followed by the throw of an abort-category error, and the
\* operation is not invoked again.
C11_AbortDuringWait ==
    /\ ~(rPc = "wait" /\ rAborted)
    /\ \A i \in Indexes("wait") :
         (i < Len(rLog) /\ rLog[i + 1].ev = "waitAborted") =>
            /\ Len(rLog) = i + 2
            /\ rLog[i + 2].ev = "throw"
            /\ rLog[i + 2].err.category = "abort"
            /\ rLog[i + 1].ms = rLog[i].ms
            /\ rPc = "thrown"

\* the signal fired during the second backoff wait
C11_Witness ==
    /\ Waits = 2
    /\ ~rAbortedAtCall
    /\ \E i \in Indexes("wait") : i < Len(rLog) /\ rLog[i + 1].ev = "waitAborted"

\* the failures of the attempts so far were all errors the retry loop treats
\* as recoverable, and the signal has not fired
OnlyRecoverableFailures ==
    /\ ~rAborted
    /\ rPredicate \in {"default", "always"}
    /\ \A i \in Indexes("fail") :
         /\ rLog[i].err.category # "abort" /\ rLog[i].err.name # "AbortError"
         /\ rPredicate = "default" => rLog[i].err.recoverable

Failures == Cardinality(Indexes("fail"))

\* the i-th wait of the log
NthWait(i) == CHOOSE j \in Indexes("wait") :
                  Cardinality({k \in Indexes("wait") : k <= j}) = i

\* C12: after k recoverable failures (k <= retries) followed by a success the
\* call returns after exactly k + 1 invocations and k backoff waits, the i-th
\* wait lasting initialBackoff * 2^(i-1) ms; with only recoverable failures
\* the call does not throw before retries + 1 attempts have failed.
C12_BackoffDoubles ==
    /\ \A i \in 1..Waits : rLog[NthWait(i)].ms = rBackoff0 * 2^(i - 1)
    /\ rPc = "returned" =>
         /\ Invocations = Failures + 1
         /\ Waits = Failures
         /\ Failures <= rRetries
         /\ rLog[Len(rLog)].ev = "return"
    /\ (OnlyRecoverableFailures /\ rPc = "thrown") => Failures = rRetries + 1

\* two recoverable failures, two waits, then success
C12_Witness ==
    /\ rPc = "returned"
    /\ OnlyRecoverableFailures
    /\ rPredicate = "default"
    /\ Failures = 2
    /\ rBackoff0 = 300

\* the invocations made before position i of the log
CallsBefore(i) == Cardinality({k \in Indexes("call") : k < i})

\* the step taken after the failure at position i is a backoff wait
Retried(i) == rLog[i + 1].ev \in {"wait", "waitAborted"}

\* C29: in a call made with the callers' predicate, a failed attempt is
\* retried exactly when the classifier called the failure recoverable and
\* attempts remain: recoverable failures are retried up to the configured
\* count and non-recoverable failures are never retried.
C29_RetryFollowsClassifier ==
    rPredicate = "caller" =>
        \A i \in Indexes("fail") :
            ~IsAbort(rLog[i].err) =>
                (Retried(i) <=> (rLog[i].err.recoverable /\ CallsBefore(i) <= rRetries))

(***************************************************************************)
(* Properties of one streamingUpload attempt (checked under Spec)          *)
(***************************************************************************)
\* C1: whatever the order of stream error, external abort, deadline and normal
\* end, each cleanup side effect (file-stream destroy, progress timer stop,
\* registry removal) has happened exactly once when the attempt has settled.
C1_CleanupExactlyOnce ==
    HasSettled =>
        /\ fx.destroy = 1
        /\ fx.trackerStop = 1
        /\ fx.unregister = 1

\* C2: for one attempt, onSuccess, onError and onAbort are invoked at most
\* once in total.
C2_AtMostOneOutcome ==
    fx.onSuccess + fx.onError + fx.onAbort <= 1

\* C3: once the state machine is completed, aborted or error, no later event
\* invokes onError or onAbort or changes the state or the byte counter.
C3_TerminalEventsAreNoOps ==
    [][ (Started /\ ssm.state \in TerminalStates) =>
            /\ fx'.onError = fx.onError
            /\ fx'.onAbort = fx.onAbort
            /\ ssm'.state = ssm.state
            /\ bytesUploaded' = bytesUploaded ]_vars

\* no event of the file stream is pending any more
Quiescent == ~Flowing /\ timers.resume = 0

\* the file stream has been closed: destroyed, or closed by itself at its end
\* or on its error
FileClosed == fileStream.destroyed \/ fileStream.ended \/ fileStream.errored

\* C13: when the cancellation signal fires while the request is in flight and
\* the state is active or paused, the settled attempt is in state aborted,
\* onAbort was invoked exactly once, onError never, and the file stream is
\* closed once no stream event is pending.
C13_AbortWhileLive ==
    (HasSettled /\ sig.firedIn \in {"active", "paused"} /\ sig.firedPc = "fetching") =>
        /\ ssm.state = "aborted"
        /\ fx.onAbort = 1
        /\ fx.onError = 0
        /\ Quiescent => FileClosed

\* C14: when the signal is already aborted at the time streamingUpload wires
\* its listeners, the settled attempt is in state aborted, has not reported
\* success, and has rejected with an abort-category error.
C14_AbortBeforeStart ==
    (HasSettled /\ sig.firedPc = "notStarted") =>
        /\ ssm.state = "aborted"
        /\ fx.onSuccess = 0
        /\ uPc = "threw"
        /\ uResult.category = "abort"

\* C15: invoking the cancel handle again changes nothing: an aborted signal
\* stays aborted with its first reason, every invocation leaves the signal
\* aborted and the deadline timer cleared, an invocation on an aborted signal
\* leaves the attempt as it was, and onAbort is delivered at most once.
C15_CancelIdempotent ==
    [][ /\ sig.aborted => (sig'.aborted /\ sig'.reason = sig.reason)
        /\ sig'.calls > sig.calls => (sig'.aborted /\ ~sig'.deadline)
        /\ (sig'.calls > sig.calls /\ sig.aborted) =>
              /\ ssm' = ssm /\ fx' = fx /\ uPc' = uPc /\ uResult' = uResult
              /\ fileStream' = fileStream /\ timers' = timers
              /\ bytesUploaded' = bytesUploaded
        /\ fx'.onAbort <= 1 ]_vars

\* the cancel handle was invoked twice while the request was in flight
C15_Witness ==
    /\ sig.calls = 2
    /\ sig.firedPc = "fetching"
    /\ fx.onAbort = 1
    /\ HasSettled

\* C16: when the deadline fires while the state machine is not terminal, the
\* settled attempt is in state aborted with the timeout reason, onAbort was
\* invoked and onError was not, and the rejection is of category abort.
C16_DeadlineIsAbort ==
    (HasSettled /\ sig.reason = "timeout"
        /\ sig.firedIn \in {"initial", "active", "paused"}) =>
        /\ ssm.state = "aborted"
        /\ ssm.error = "timeout"
        /\ fx.onAbort = 1
        /\ fx.onError = 0
        /\ uPc = "threw"
        /\ uResult.category = "abort"

\* C17: once the attempt is terminal and streamingUpload has settled, the
\* progress interval does not fire any more.
C17_NoTickAfterSettle ==
    [][ (HasSettled /\ ssm.state \in TerminalStates) =>
            fx'.onProgress = fx.onProgress ]_vars

\* C18: every error streamingUpload rejects with carries a classification.
C18_RejectionsAreClassified ==
    uPc = "threw" =>
        /\ uResult.category # "none"
        /\ uResult.errorType # "none"

\* C19: when termination is triggered, a registered attempt that is not
\* terminal is cancelled (its signal is aborted), whether it has its own
\* controller or the caller's signal, and the registry is emptied.
C19_TerminationCancelsAll ==
    [][ (~isShuttingDown /\ isShuttingDown') =>
            /\ activeUploads' = {}
            /\ (UploadId \in activeUploads /\ ~IsInTerminalState(ssm)) => sig'.aborted
      ]_vars

\* C31: every call of streamingUpload, whether or not the size of the file
\* can be looked up, creates the state machine and gets as far as the request:
\* it is awaiting fetch, or it has settled through the catch and finally
\* blocks.
C31_StatFailureNotFatal ==
    [][ (uPc = "notStarted" /\ uPc' # "notStarted") =>
            /\ ssm'.state # "initial"
            /\ uPc' = "fetching" \/ fx'.unregister >= 1
            /\ uResult' \notin StatErrors ]_vars

(***************************************************************************)
(* Properties of concurrent attempts (checked under SpecMulti)             *)
(***************************************************************************)
EntriesOf(reg, j) == {e \in reg : e.owner = j}

\* C20: a step that cancels one in-flight attempt (through its signal or its
\* deadline) leaves every other attempt's state machine, signal and timer and
\* the other attempts' registry entries as they were.
C20_CancelIsLocal ==
    [][ \A i \in Attempts :
          (mShutting' = mShutting /\ mAttempts[i].pc = "inFlight"
                /\ ~mAttempts[i].aborted /\ mAttempts'[i].aborted) =>
              \A j \in Attempts \ {i} :
                  /\ mAttempts'[j] = mAttempts[j]
                  /\ EntriesOf(mRegistry', j) = EntriesOf(mRegistry, j) ]_vars

\* C21: the registry holds an entry for an attempt only while that attempt is
\* in flight; once no attempt is in flight the registry is empty, also when
\* two attempts registered under the same uploadId.
C21_RegistryOnlyInFlight ==
    /\ \A e \in mRegistry : mAttempts[e.owner].pc = "inFlight"
    /\ (\A i \in Attempts : mAttempts[i].pc # "inFlight") => mRegistry = {}

\* C32: an attempt is aborted by its deadline only when abortOnTimeout is set
\* (the default); with VENA_ABORT_ON_TIMEOUT = 'false' the deadline firing does
\* not abort it.
C32_AbortOnTimeoutDecides ==
    \A i \in Attempts : mAttempts[i].reason = "timeout" => mProc.abortOnTimeout

StartsAttempt(i) == mAttempts[i].pc = "notStarted" /\ mAttempts'[i].pc # "notStarted"

\* C39: during shutdown the registry is empty and stays empty; an attempt
\* started then is not registered and its cancel handle is invoked at once;
\* a further termination request changes nothing but the count of requests.
C39_ShutdownRegistry ==
    /\ [](mShutting => mRegistry = {})
    /\ [][ \A i \in Attempts : (mShutting /\ StartsAttempt(i)) =>
              /\ mProc'.handleCalls = mProc.handleCalls + 1
              /\ mRegistry' = {} ]_vars
    /\ [][ (mShutting /\ mProc'.requests > mProc.requests) =>
              /\ mAttempts' = mAttempts /\ mRegistry' = mRegistry /\ mShutting'
              /\ mProc' = [mProc EXCEPT !.requests = @ + 1] ]_vars

\* an attempt was started during shutdown, and a second termination request
\* came after the exit timers had fired
C39_Witness ==
    /\ mShutting /\ mProc.requests = 2
    /\ ~mProc.normalExitTimer
    /\ \E i \in Attempts : mAttempts[i].reason = "shutdown"
    /\ mProc.handleCalls >= 1

\* C40: once handleTermination has run, the process ends: it exits on its own
\* or process.exit is called.
C40_EventuallyExits ==
    mShutting ~> (~mProc.running \/ mProc.exitCalled)

(***************************************************************************)
(* Backpressure (checked under Spec)                                       *)
(***************************************************************************)
\* C22: the chunks read from the file and not yet acknowledged by the
\* transport never exceed memoryThreshold plus one chunk.
C22_BufferBounded ==
    bytesUploaded - bytesAcked <= MemoryThreshold + 1

\* C23: every pause of the state machine pauses the stream and schedules a
\* resume, and a paused attempt always becomes active or terminal again.
C23_PausedResumes ==
    /\ [][ (ssm.state # "paused" /\ ssm'.state = "paused") =>
              /\ ssm.state = "active"
              /\ fileStream'.paused
              /\ timers'.resume = timers.resume + 1 ]_vars
    /\ (ssm.state = "paused") ~> (ssm.state \in {"active"} \cup TerminalStates)

\* the attempt was paused by the 'data' handler and resumed by the timer
C23_Witness ==
    /\ \E i \in 1..Len(ssm.transitions) :
          ssm.transitions[i].from = "paused" /\ ssm.transitions[i].to = "active"
    /\ memCriticals = 0
    /\ ~fileStream.paused

\* C33: a resume timer is scheduled only by a step in which the state machine
\* goes from active to paused, so at most one resume is pending at a time.
C33_PauseOnlyIfAccepted ==
    /\ [][ timers'.resume > timers.resume =>
              (ssm.state = "active" /\ ssm'.state = "paused") ]_vars
    /\ [](timers.resume <= 1)

\* a resume timer fires
ResumeFires == timers'.resume < timers.resume

\* C34: a resume timer that fires when the state machine is aborted, error or
\* completed changes neither the state machine nor the file stream; one that
\* fires when it is paused makes it active and resumes the stream.
C34_ResumeOnlyIfPaused ==
    [][ ResumeFires =>
          /\ ssm.state \in TerminalStates => (ssm' = ssm /\ fileStream' = fileStream)
          /\ ssm.state = "paused" => (ssm'.state = "active" /\ ~fileStream'.paused)
      ]_vars

\* the attempt was aborted while paused, the timer of the pause has fired since,
\* and the stream is still paused
C34_Witness ==
    /\ ssm.state = "aborted"
    /\ ssm.transitions[Len(ssm.transitions)].from = "paused"
    /\ timers.resume = 0
    /\ fileStream.paused /\ ~fileStream.destroyed

\* streamingUpload has settled after creating its state machine
SettledAfterSetup == HasSettled /\ ssm.state # "initial"

\* C35: when streamingUpload has settled, the deadline timer is cancelled and
\* the memory monitor is stopped.
C35_TimersStoppedOnSettle ==
    SettledAfterSetup => (~sig.deadline /\ ~timers.monitor)

\* C36: when streamingUpload has settled the state machine is completed,
\* aborted or error, and stays as it is.
C36_SettledIsTerminal ==
    /\ [](SettledAfterSetup => ssm.state \in TerminalStates)
    /\ [][ SettledAfterSetup => ssm'.state = ssm.state ]_vars

InFlight == uPc \in {"fetching", "readingJson", "readingText"}

\* C37: an attempt in flight that has seen no terminal event and no abort has
\* its deadline timer pending, with its own controller or the caller's signal.
C37_DeadlineBoundsEveryAttempt ==
    (InFlight /\ ~IsInTerminalState(ssm) /\ ~sig.aborted) => sig.deadline

\* C38: when the signal given to fetchWithRetry fires during a backoff wait,
\* the wait is cut short: the call has rejected with an abort error, and the
\* operation was not invoked after the wait began.
C38_FetchSignalCutsWait ==
    rFetchSignal = "firedInWait" =>
        /\ rPc = "thrown"
        /\ rLog[Len(rLog)].ev = "throw"
        /\ rLog[Len(rLog)].err.category = "abort"
        /\ rLog[Len(rLog) - 1].ev \in {"wait", "waitAborted"}

(***************************************************************************)
(* Properties of the ProgressTracker (checked under SpecTracker)           *)
(***************************************************************************)
\* the stall counter before the i-th tick
CounterBefore(i) == IF i = 1 THEN 0 ELSE tLog[i - 1].counter

\* C24: a tick that sees progress resets the stall counter to 0 and notifies
\* nothing; a tick that sees none adds one to the counter, and the stall
\* callback fires on the tick at which the counter reaches stallThreshold, with
\* stall time = counter * progressInterval / 1000, and on no later tick of the
\* same episode.
C24_StallOncePerEpisode ==
    \A i \in 1..Len(tLog) :
        IF tLog[i].progress
          THEN tLog[i].counter = 0 /\ ~tLog[i].fired
          ELSE /\ tLog[i].counter = CounterBefore(i) + 1
               /\ tLog[i].fired <=> (tLog[i].counter = StallThreshold)
               /\ tLog[i].fired =>
                    tLog[i].stallTime = (tLog[i].counter * ProgressInterval) \div 1000

\* C30: for a 0-byte file whose size lookup succeeded, every progress report
\* has bytesUploaded = 0 and percentage 100 (never 'unknown'), and no stall
\* notification fires at any tick.
C30_EmptyFile ==
    (tracker.totalBytes = 0 /\ tracker.bytesUploaded = 0) =>
        \A i \in 1..Len(tLog) :
            /\ tLog[i].bytesUploaded = 0
            /\ tLog[i].percentage = [known |-> TRUE, value |-> 100]
            /\ ~tLog[i].fired


(***************************************************************************)
(* Properties of classifyError (checked under SpecClassify)                *)
(***************************************************************************)
Calls == {cLog[i] : i \in DOMAIN cLog}

\* the error says by its name that the operation was cancelled
IndicatesCancellation(e) == e.name = "AbortError"

\* C25: classifyError returns (user_abort, abort, non-recoverable) exactly
\* when the raw error's name indicates cancellation, whatever filesystem code,
\* network code and HTTP status the error carries.
C25_AbortIffCancellation ==
    \A c \in Calls :
        IF IndicatesCancellation(c.in)
          THEN Triple(c.out) = <<"user_abort", "abort", FALSE>>
          ELSE c.out.category # "abort"

\* a row of the decision table: errorType "" stands for "not prescribed"
Row(errorType, category, recoverable) ==
    [errorType |-> errorType, category |-> category, recoverable |-> recoverable]

Agrees(e, row) ==
    /\ e.category = row.category
    /\ e.recoverable = row.recoverable
    /\ row.errorType # "" => e.errorType = row.errorType

SystemCodeRow(e) ==
    LET code == e.code IN
    IF code = "ENOENT" THEN Row("file_not_found", "filesystem", FALSE)
    ELSE IF code \in {"EACCES", "EPERM"} THEN Row("permission_denied", "filesystem", FALSE)
    ELSE IF code \in {"EBUSY", "EMFILE"} THEN Row("", "filesystem", TRUE)
    ELSE IF code \in {"EISDIR", "ENOTDIR"} THEN Row("", "filesystem", FALSE)
    ELSE IF code \in {"ECONNRESET", "ECONNREFUSED", "ENOTFOUND"} THEN Row("", "network", TRUE)
    ELSE IF code = "ETIMEDOUT" \/ "timeout" \in e.tokens THEN Row("", "timeout", TRUE)
    ELSE Row("", "stream", TRUE)

\* neither the name nor the message speaks of an abort, and the message
\* names no connection failure
PlainSystemError(e) ==
    /\ e.name # "AbortError"
    /\ e.tokens \cap {"aborted", "connection reset", "connection refused"} = {}
    /\ e.code # ""

\* C26: a non-cancellation error carrying a system error code is classified
\* by the table not-found, permission, file-in-use / too-many-open-files,
\* is-directory / not-a-directory, connection-reset / connection-refused /
\* DNS failure, timeout code or message, broken pipe, earlier rows winning.
C26_SystemCodeTable ==
    \A c \in Calls :
        PlainSystemError(c.in) => Agrees(c.out, SystemCodeRow(c.in))

\* no rule before the HTTP-status rule applies to the error
NoEarlierRule(e) ==
    /\ e.name # "AbortError"
    /\ e.code \notin HandledCodes
    /\ e.tokens \cap {"aborted", "connection reset", "connection refused",
                      "timeout"} = {}

EmbedsStatus(e) == "HTTP error! Status:" \in e.tokens /\ e.status >= 400

StatusRowAsStated(status) ==
    IF status >= 500 THEN Row("", "server", TRUE)
    ELSE IF status = 429 THEN Row("rate_limited", "server", TRUE)
    ELSE IF status \in {401, 403} THEN Row("", "auth", FALSE)
    ELSE IF status = 413 THEN Row("file_too_large", "validation", FALSE)
    ELSE Row("", "validation", FALSE)

StatusRow(status) ==
    IF status = 404 THEN Row("server_error", "server", FALSE)
    ELSE StatusRowAsStated(status)

====
